---------------------------- MODULE Spec2Model ----------------------------
(***************************************************************************)
(* Model of download_image_from_iiif.ipynb: get_pid, get_image_ids,        *)
(* construct_image_url and download_image, together with the three HTTP    *)
(* collaborators (Handle redirect, IIIF presentation manifest, IIIF image  *)
(* service) and the file system under images/.                             *)
(*                                                                         *)
(* Python values:  None is <<>>, any other optional value v is <<v>>.      *)
(* URLs that are pattern-matched are tuples of one-character strings;      *)
(* every other string is a TLA+ string built with \o.                      *)
(* A dict is a function from its keys; a list is a sequence.               *)
(* A call that can raise returns [exc |-> name, value |-> v]; exc = ""     *)
(* means a normal return.                                                  *)
(***************************************************************************)
EXTENDS Integers, Sequences, FiniteSets, TLC

----------------------------------------------------------------------------
(* Bounds of the model *)

\* Largest number of canvases in the first sequence of a served manifest.
MaxCanvases == 2

\* Number of download_image invocations made one after the other.
MaxRuns == 2

----------------------------------------------------------------------------
(* Python values *)

None == <<>>

Some(v) == <<v>>

\* Python truthiness of an optional integer: None and 0 are falsy.
Truthy(x) == x # None /\ x[1] # 0

Ok(v) == [exc |-> "", value |-> v]

Raise(e) == [exc |-> e, value |-> None]

Digits == <<"0", "1", "2", "3", "4", "5", "6", "7", "8", "9">>

\* str(n) for a natural number, as an f-string formats it.
RECURSIVE IntToStr(_)
IntToStr(n) ==
    IF n < 10 THEN Digits[n + 1]
    ELSE IntToStr(n \div 10) \o Digits[(n % 10) + 1]

\* ''.join(chars)
RECURSIVE Join(_)
Join(chars) ==
    IF chars = <<>> THEN "" ELSE Head(chars) \o Join(Tail(chars))

\* How an f-string formats pid: None prints as 'None'.
FormatPid(p) == IF p = None THEN "None" ELSE Join(p[1])

----------------------------------------------------------------------------
(* get_pid: re.search(r'entity=(IE\d+)', response.url) *)

IsDigit(c) == \E k \in 1..Len(Digits) : Digits[k] = c

EntityPrefix == <<"e", "n", "t", "i", "t", "y", "=", "I", "E">>

\* The pattern matches at position i: the literal prefix, then one digit.
MatchesAt(url, i) ==
    /\ i + Len(EntityPrefix) <= Len(url)
    /\ SubSeq(url, i, i + Len(EntityPrefix) - 1) = EntityPrefix
    /\ IsDigit(url[i + Len(EntityPrefix)])

\* \d+ is greedy: the index of the last digit of the run that starts at j.
RECURSIVE DigitRunEnd(_, _)
DigitRunEnd(url, j) ==
    IF j + 1 <= Len(url) /\ IsDigit(url[j + 1])
    THEN DigitRunEnd(url, j + 1)
    ELSE j

\* re.search + match.group(1): the leftmost match's capture, or None.
ReSearchEntity(url) ==
    LET hits == {i \in 1..Len(url) : MatchesAt(url, i)} IN
    IF hits = {} THEN None
    ELSE LET i == CHOOSE k \in hits : \A m \in hits : k <= m
             s == i + Len(EntityPrefix) - 2
         IN  Some(SubSeq(url, s, DigitRunEnd(url, s + 2)))

----------------------------------------------------------------------------
(* get_image_ids *)

\* d[key] on a dict: KeyError when the key is absent.
GetItem(d, key) == IF key \in DOMAIN d THEN Ok(d[key]) ELSE Raise("KeyError")

\* l[0] on a list: IndexError when the list is empty.
First(l) == IF Len(l) >= 1 THEN Ok(l[1]) ELSE Raise("IndexError")

\* canvas['images'][0]['resource']['service']['@id']
CanvasServiceId(canvas) ==
    LET images == GetItem(canvas, "images") IN
    IF images.exc # "" THEN images ELSE
    LET image == First(images.value) IN
    IF image.exc # "" THEN image ELSE
    LET resource == GetItem(image.value, "resource") IN
    IF resource.exc # "" THEN resource ELSE
    LET service == GetItem(resource.value, "service") IN
    IF service.exc # "" THEN service ELSE
    GetItem(service.value, "@id")

\* The for loop: append each canvas's service @id; the first exception ends it.
RECURSIVE AppendIds(_, _)
AppendIds(canvases, image_ids) ==
    IF canvases = <<>> THEN Ok(image_ids)
    ELSE LET id == CanvasServiceId(Head(canvases)) IN
         IF id.exc # "" THEN Raise(id.exc)
         ELSE AppendIds(Tail(canvases), Append(image_ids, id.value))

\* A plausible bug: canvases that cannot be read are skipped.
RECURSIVE AppendIdsSkipping(_, _)
AppendIdsSkipping(canvases, image_ids) ==
    IF canvases = <<>> THEN Ok(image_ids)
    ELSE LET id == CanvasServiceId(Head(canvases)) IN
         IF id.exc # "" THEN AppendIdsSkipping(Tail(canvases), image_ids)
         ELSE AppendIdsSkipping(Tail(canvases), Append(image_ids, id.value))

\* manifest['sequences'][0]['canvases'], then the loop over it.
ManifestCanvases(manifest) ==
    LET sequences == GetItem(manifest, "sequences") IN
    IF sequences.exc # "" THEN sequences ELSE
    LET sequence == First(sequences.value) IN
    IF sequence.exc # "" THEN sequence ELSE
    GetItem(sequence.value, "canvases")

get_image_ids_skipping(manifest) ==
    LET canvases == ManifestCanvases(manifest) IN
    IF canvases.exc # "" THEN Ok(<<>>)
    ELSE AppendIdsSkipping(canvases.value, <<>>)

RECURSIVE Dedup(_, _)
Dedup(ids, seen) ==
    IF ids = <<>> THEN seen
    ELSE IF \E k \in 1..Len(seen) : seen[k] = Head(ids)
         THEN Dedup(Tail(ids), seen)
         ELSE Dedup(Tail(ids), Append(seen, Head(ids)))

\* A plausible bug: an identifier already collected is not collected again.
get_image_ids_dedup(manifest) ==
    LET canvases == ManifestCanvases(manifest) IN
    IF canvases.exc # "" THEN Raise(canvases.exc)
    ELSE LET r == AppendIds(canvases.value, <<>>) IN
         IF r.exc # "" THEN r ELSE Ok(Dedup(r.value, <<>>))

\* A plausible bug: a manifest without pages is rejected.
get_image_ids_nonempty(manifest) ==
    LET canvases == ManifestCanvases(manifest) IN
    IF canvases.exc # "" THEN Raise(canvases.exc)
    ELSE IF canvases.value = <<>> THEN Raise("IndexError")
    ELSE AppendIds(canvases.value, <<>>)

get_image_ids(manifest) ==
    LET canvases == ManifestCanvases(manifest) IN
    IF canvases.exc # "" THEN Raise(canvases.exc)
    ELSE AppendIds(canvases.value, <<>>)

----------------------------------------------------------------------------
(* construct_image_url *)

\* A plausible bug: the bounded-fit marker '!' is left out.
construct_image_url_nobang(image_id, image_type, max_width, max_height) ==
    LET size ==
          IF Truthy(max_width) /\ Truthy(max_height)
            THEN IntToStr(max_width[1]) \o "," \o IntToStr(max_height[1])
          ELSE IF Truthy(max_width) THEN IntToStr(max_width[1]) \o ","
          ELSE IF Truthy(max_height) THEN "," \o IntToStr(max_height[1])
          ELSE "max"
    IN  image_id \o "/full/" \o size \o "/0/default." \o image_type

construct_image_url(image_id, image_type, max_width, max_height) ==
    LET size ==
          IF Truthy(max_width) /\ Truthy(max_height)
            THEN "!" \o IntToStr(max_width[1]) \o "," \o IntToStr(max_height[1])
          ELSE IF Truthy(max_width) THEN IntToStr(max_width[1]) \o ","
          ELSE IF Truthy(max_height) THEN "," \o IntToStr(max_height[1])
          ELSE "max"
    IN  image_id \o "/full/" \o size \o "/0/default." \o image_type

----------------------------------------------------------------------------
(* The inputs of download_image and the servers it talks to *)

HandleResolving == "http://handle.slv.vic.gov.au/10381/25896"

HandleTwoEntities == "http://handle.slv.vic.gov.au/10381/282282"

HandleStale == "http://handle.slv.vic.gov.au/10381/0"

HandleUnreachable == "http://handle.invalid/1"

HandleURLs == {HandleResolving, HandleTwoEntities, HandleStale, HandleUnreachable}

\* response.url of the Handle server, after its redirects: None when the
\* server cannot be reached (requests.get raises ConnectionError).
\*   /v?entity=IE1164978         /v?entity=IE42&entity=IE7        /v?entity=IEx&id=12
FinalUrl(handle) ==
    CASE handle = HandleResolving ->
           Some(<<"/", "v", "?">> \o EntityPrefix
                \o <<"1", "1", "6", "4", "9", "7", "8">>)
      [] handle = HandleTwoEntities ->
           Some(<<"/", "v", "?">> \o EntityPrefix \o <<"4", "2", "&">>
                \o EntityPrefix \o <<"7">>)
      [] handle = HandleStale ->
           Some(<<"/", "v", "?">> \o EntityPrefix
                \o <<"x", "&", "i", "d", "=", "1", "2">>)
      [] OTHER -> None

ImageTypes == {"jpg", "tif"}

Widths == {None, Some(200)}

Heights == {None, Some(150)}

ServiceIds == {"https://img.example/service1", "https://img.example/service2"}

\* The IIIF Presentation 2.1 documents the manifest server may answer with.
Service(id) == ("profile" :> "level2") @@ ("@id" :> id)

ServiceNoId == ("profile" :> "level2")

Resource(service) == ("@type" :> "dctypes:Image") @@ ("service" :> service)

ResourceNoService == ("@type" :> "dctypes:Image")

Image(resource) == ("@type" :> "oa:Annotation") @@ ("resource" :> resource)

ImageNoResource == ("@type" :> "oa:Annotation")

Canvas(images) == ("@type" :> "sc:Canvas") @@ ("images" :> images)

CanvasNoImages == ("@type" :> "sc:Canvas")

GoodCanvases ==
    {Canvas(<<Image(Resource(Service(id)))>>) : id \in ServiceIds}
    \cup {Canvas(<<Image(Resource(Service("https://img.example/service2"))),
                   Image(Resource(Service("https://img.example/service1")))>>)}

BadCanvases ==
    {CanvasNoImages,
     Canvas(<<>>),
     Canvas(<<ImageNoResource>>),
     Canvas(<<Image(ResourceNoService)>>),
     Canvas(<<Image(Resource(ServiceNoId))>>)}

CanvasLists(S) == UNION {[1..n -> S] : n \in 0..MaxCanvases}

Sequence(canvases) == ("@type" :> "sc:Sequence") @@ ("canvases" :> canvases)

Manifest(sequences) == ("@type" :> "sc:Manifest") @@ ("sequences" :> sequences)

Manifests ==
    {Manifest(<<Sequence(cs)>>) : cs \in CanvasLists(GoodCanvases \cup BadCanvases)}
    \cup {("@type" :> "sc:Manifest"),
          Manifest(<<>>),
          Manifest(<<("@type" :> "sc:Sequence")>>)}

\* What s.get(manifest_url) can meet: an unreachable server, a body that is
\* not JSON, or a JSON document.
ManifestResponses ==
    {[exc |-> "ConnectionError", json |-> None], [exc |-> "", json |-> None]}
    \cup {[exc |-> "", json |-> Some(m)] : m \in Manifests}

\* What s.get(image_url) can meet when the session cookie is sent.
ImageOutcomes == {"ok", "http_error", "ConnectionError"}

CookieName == "JSESSIONID"

\* The session cookie the manifest response of the n-th invocation sets.
CookieValue(n) == "sid-" \o IntToStr(n)

\* response.content of an image request.
Body(status, url) == (IF status = "ok" THEN "image:" ELSE "error:") \o url

ManifestUrl(p) ==
    "https://rosetta.slv.vic.gov.au/delivery/iiif/presentation/2.1/"
    \o FormatPid(p) \o "/manifest"

\* A plausible bug: the pages are numbered from 1.
FilenameOneBased(p, i, type) ==
    "images/slv-" \o FormatPid(p) \o "-" \o IntToStr(i + 1) \o "." \o type

Filename(p, i, type) ==
    "images/slv-" \o FormatPid(p) \o "-" \o IntToStr(i) \o "." \o type

\* A plausible bug: the file is opened for appending.
WriteBytesAppending(files, filename, data) ==
    (filename :> (IF filename \in DOMAIN files THEN files[filename] ELSE <<>>)
                 \o <<data>>) @@ files

\* Path.write_bytes: the file holds exactly the data, whatever it held before.
WriteBytes(files, filename, data) == (filename :> <<data>>) @@ files

----------------------------------------------------------------------------
(* download_image as a state machine *)

VARIABLES
    handle_url, image_type, max_width, max_height,  \* the call's arguments
    pc,              \* the statement download_image is at
    run,             \* which invocation this is, counted from 1
    pid,             \* get_pid's result
    jar,             \* the cookies of the requests.Session s
    manifest,        \* response.json() of the manifest request
    image_ids,       \* get_image_ids's result
    index,           \* enumerate's counter
    response,        \* the response of the last image request
    exc,             \* the exception that ended the call, "" if none
    dirs,            \* the directories that exist
    files,           \* the files that exist: name -> the chunks written
    manifest_served, \* the manifest server's answer, once it has given one
    image_served,    \* the image server's answers so far: url -> outcome
    trace,           \* what this call has done so far, in order
    files_before     \* the files as they were when this call began

vars == <<handle_url, image_type, max_width, max_height, pc, run, pid, jar,
          manifest, image_ids, index, response, exc, dirs, files,
          manifest_served, image_served, trace, files_before>>

args == <<handle_url, image_type, max_width, max_height>>

server == <<manifest_served, image_served>>

Event(op, url, cookies, i, status) ==
    [op |-> op, url |-> url, cookies |-> cookies, index |-> i, status |-> status]

\* A plausible bug: one module-level session serves every call.
SessionShared == jar

\* requests.Session(): a new session holds no cookies.
Session == <<>>

Init ==
    /\ handle_url \in HandleURLs
    /\ image_type \in ImageTypes
    /\ max_width \in Widths
    /\ max_height \in Heights
    /\ pc = "get_pid"
    /\ run = 1
    /\ pid = None
    /\ jar = <<>>
    /\ manifest = None
    /\ image_ids = <<>>
    /\ index = 0
    /\ response = None
    /\ exc = ""
    /\ dirs = {}
    /\ files = <<>>
    /\ manifest_served = None
    /\ image_served = <<>>
    /\ trace = <<>>
    /\ files_before = <<>>

\* pid = get_pid(handle_url): requests.get outside any session, then the
\* pattern search; no match falls off the end of get_pid and returns None.
GetPid ==
    /\ pc = "get_pid"
    /\ LET final == FinalUrl(handle_url) IN
       IF final = None
       THEN /\ trace' = Append(trace, Event("handle_get", handle_url, <<>>, -1,
                                            "ConnectionError"))
            /\ exc' = "ConnectionError"
            /\ pc' = "raised"
            /\ pid' = pid
       ELSE /\ trace' = Append(trace, Event("handle_get", handle_url, <<>>, -1,
                                            "ok"))
            /\ pid' = ReSearchEntity(final[1])
            /\ pc' = "session"
            /\ exc' = exc
    /\ UNCHANGED <<args, run, jar, manifest, image_ids, index, response, dirs,
                   files, server, files_before>>

\* s = requests.Session()
CreateSession ==
    /\ pc = "session"
    /\ jar' = Session
    /\ pc' = "manifest_get"
    /\ UNCHANGED <<args, run, pid, manifest, image_ids, index, response, exc,
                   dirs, files, server, trace, files_before>>

\* response = s.get(manifest_url); manifest = response.json()
GetManifest ==
    /\ pc = "manifest_get"
    /\ \E r \in (IF manifest_served = None THEN ManifestResponses
                 ELSE {manifest_served[1]}) :
         /\ manifest_served' = Some(r)
         /\ trace' = Append(trace, Event("manifest_get", ManifestUrl(pid), jar, -1,
                                         IF r.exc = "" THEN "ok" ELSE r.exc))
         /\ IF r.exc # ""
            THEN /\ exc' = r.exc
                 /\ pc' = "raised"
                 /\ UNCHANGED <<jar, manifest>>
            ELSE /\ jar' = (CookieName :> CookieValue(run)) @@ jar
                 /\ IF r.json = None
                    THEN /\ exc' = "JSONDecodeError"
                         /\ pc' = "raised"
                         /\ manifest' = manifest
                    ELSE /\ manifest' = r.json
                         /\ pc' = "parse"
                         /\ exc' = exc
    /\ UNCHANGED <<args, run, pid, image_ids, index, response, dirs, files,
                   image_served, files_before>>

\* image_ids = get_image_ids(manifest)
Parse ==
    /\ pc = "parse"
    /\ trace' = Append(trace, Event("parse", "", <<>>, -1, "ok"))
    /\ LET r == get_image_ids(manifest[1]) IN
       IF r.exc # ""
       THEN /\ exc' = r.exc
            /\ pc' = "raised"
            /\ image_ids' = image_ids
       ELSE /\ image_ids' = r.value
            /\ pc' = "mkdir"
            /\ exc' = exc
    /\ UNCHANGED <<args, run, pid, jar, manifest, index, response, dirs, files,
                   server, files_before>>

\* Path('images').mkdir(parents=True, exist_ok=True), then the loop begins.
Mkdir ==
    /\ pc = "mkdir"
    /\ dirs' = dirs \cup {"images"}
    /\ trace' = Append(trace, Event("mkdir", "images", <<>>, -1, "ok"))
    /\ index' = 0
    /\ pc' = "loop"
    /\ UNCHANGED <<args, run, pid, jar, manifest, image_ids, response, exc,
                   files, server, files_before>>

\* The image server refuses a request without the session cookie; otherwise
\* it answers a url the way it answered it before, if it did.
ImageAnswers(url, cookies) ==
    IF CookieName \notin DOMAIN cookies THEN {"http_error"}
    ELSE IF url \in DOMAIN image_served THEN {image_served[url]}
    ELSE ImageOutcomes

\* A plausible bug: a failed request is made again.
ImageGetRetrying ==
    /\ pc = "loop"
    /\ index < Len(image_ids)
    /\ LET image_url == construct_image_url(image_ids[index + 1], image_type,
                                            max_width, max_height) IN
       \E status \in ImageAnswers(image_url, jar) :
         /\ image_served' = (image_url :> status) @@ image_served
         /\ trace' = Append(trace, Event("image_get", image_url, jar, index, status))
         /\ IF status = "ConnectionError"
            THEN UNCHANGED <<pc, response>>
            ELSE /\ response' = Some([status |-> status,
                                      content |-> Body(status, image_url)])
                 /\ pc' = "write"
    /\ UNCHANGED <<args, run, pid, jar, manifest, image_ids, index, exc, dirs,
                   files, manifest_served, files_before>>

\* image_url = construct_image_url(...); response = s.get(image_url)
\* requests raises only when no response arrives; any HTTP status returns.
ImageGet ==
    /\ pc = "loop"
    /\ index < Len(image_ids)
    /\ LET image_url == construct_image_url(image_ids[index + 1], image_type,
                                            max_width, max_height) IN
       \E status \in ImageAnswers(image_url, jar) :
         /\ image_served' = (image_url :> status) @@ image_served
         /\ trace' = Append(trace, Event("image_get", image_url, jar, index, status))
         /\ IF status = "ConnectionError"
            THEN /\ exc' = "ConnectionError"
                 /\ pc' = "raised"
                 /\ response' = response
            ELSE /\ response' = Some([status |-> status,
                                      content |-> Body(status, image_url)])
                 /\ pc' = "write"
                 /\ exc' = exc
    /\ UNCHANGED <<args, run, pid, jar, manifest, image_ids, index, dirs,
                   files, manifest_served, files_before>>

\* filename.write_bytes(response.content), then enumerate moves on.
WriteFile ==
    /\ pc = "write"
    /\ LET filename == Filename(pid, index, image_type) IN
       /\ files' = WriteBytes(files, filename, response[1].content)
       /\ trace' = Append(trace, Event("write", filename, <<>>, index, "ok"))
    /\ index' = index + 1
    /\ pc' = "loop"
    /\ UNCHANGED <<args, run, pid, jar, manifest, image_ids, response, exc,
                   dirs, server, files_before>>

\* The loop is exhausted: download_image returns.
Return ==
    /\ pc = "loop"
    /\ index = Len(image_ids)
    /\ pc' = "returned"
    /\ UNCHANGED <<args, run, pid, jar, manifest, image_ids, index, response,
                   exc, dirs, files, server, trace, files_before>>

\* The same call is made again: its locals are new, the file system and the
\* servers are as the previous call left them.  The previous call's Session
\* object is unreachable, not cleared.
CallAgain ==
    /\ pc \in {"returned", "raised"}
    /\ run < MaxRuns
    /\ run' = run + 1
    /\ pc' = "get_pid"
    /\ pid' = None
    /\ manifest' = None
    /\ image_ids' = <<>>
    /\ index' = 0
    /\ response' = None
    /\ exc' = ""
    /\ trace' = <<>>
    /\ files_before' = files
    /\ UNCHANGED <<args, jar, dirs, files, server>>

Next ==
    \/ GetPid
    \/ CreateSession
    \/ GetManifest
    \/ Parse
    \/ Mkdir
    \/ ImageGet
    \/ WriteFile
    \/ Return
    \/ CallAgain

Spec == Init /\ [][Next]_vars

----------------------------------------------------------------------------
(* What the claims are stated with *)

Finished == pc \in {"returned", "raised"}

\* The positions of the trace at which op happened.
At(op) == {k \in 1..Len(trace) : trace[k].op = op}

\* The manifest has every key get_image_ids reads, down to the canvas list.
HasCanvasList(m) ==
    /\ "sequences" \in DOMAIN m
    /\ m["sequences"] # <<>>
    /\ "canvases" \in DOMAIN m["sequences"][1]

\* The canvas has every key get_image_ids reads, down to the service @id.
CanvasWellFormed(c) ==
    /\ "images" \in DOMAIN c
    /\ c["images"] # <<>>
    /\ "resource" \in DOMAIN c["images"][1]
    /\ "service" \in DOMAIN c["images"][1]["resource"]
    /\ "@id" \in DOMAIN c["images"][1]["resource"]["service"]

CanvasesOf(m) == m["sequences"][1]["canvases"]

WellFormed(m) ==
    /\ HasCanvasList(m)
    /\ \A k \in 1..Len(CanvasesOf(m)) : CanvasWellFormed(CanvasesOf(m)[k])

\* The service @id of the first image resource of the k-th canvas.
ServiceIdOf(m, k) == CanvasesOf(m)[k]["images"][1]["resource"]["service"]["@id"]

\* The size token of the four-shape rule, for sizes that are None or positive.
SizeToken(w, h) ==
    CASE w = None /\ h = None -> "max"
      [] w # None /\ h = None -> IntToStr(w[1]) \o ","
      [] w = None /\ h # None -> "," \o IntToStr(h[1])
      [] w # None /\ h # None -> "!" \o IntToStr(w[1]) \o "," \o IntToStr(h[1])

ExpectedUrl(id) ==
    id \o "/full/" \o SizeToken(max_width, max_height) \o "/0/default." \o image_type

\* The item identifier each Handle of the model resolves to.
ExpectedPid(handle) ==
    CASE handle = HandleResolving -> "IE1164978"
      [] handle = HandleTwoEntities -> "IE42"
      [] OTHER -> "(none)"

ExpectedFilename(i) ==
    "images/slv-" \o ExpectedPid(handle_url) \o "-" \o IntToStr(i) \o "." \o image_type

ThisRunCookies == (CookieName :> CookieValue(run))

----------------------------------------------------------------------------
(* The claims *)

\* C1: within one download_image invocation every image GET goes through the
\* session that issued the manifest GET, after that GET has returned, so it
\* carries the cookie that manifest response set; and the session of each
\* invocation is new: its manifest GET carries no cookie of an earlier
\* invocation.
C1_SessionReuse ==
    /\ pc = "manifest_get" => jar = <<>>
    /\ \A k \in At("manifest_get") : trace[k].cookies = <<>>
    /\ \A k \in At("image_get") :
         /\ \E j \in At("manifest_get") : j < k /\ trace[j].status = "ok"
         /\ trace[k].cookies = ThisRunCookies
         /\ trace[k].cookies = jar

C1_Witness ==
    /\ run = 2
    /\ \E k \in At("image_get") :
         trace[k].index = 1 /\ trace[k].cookies = ThisRunCookies

\* C2: if the image GET for page i fails (no response, or a non-success
\* status), no file is written for page i, no GET is issued and no file is
\* written for any later page, and the call ends by raising at page i.
C2_FailedImageGetAborts ==
    \A k \in At("image_get") :
      trace[k].status # "ok" =>
        /\ \A j \in At("write") : trace[j].index < trace[k].index
        /\ \A j \in At("image_get") : trace[j].index <= trace[k].index
        /\ Finished => (pc = "raised" /\ exc # "" /\ index = trace[k].index)

\* C3: when the final url of the Handle does not contain entity=IE<digits>,
\* get_pid fails and download_image ends with that failure, having issued no
\* manifest GET, created no directory and written no file.
C3_UnresolvedHandleAborts ==
    (/\ At("handle_get") # {}
     /\ FinalUrl(handle_url) # None
     /\ ReSearchEntity(FinalUrl(handle_url)[1]) = None)
    => /\ At("manifest_get") = {}
       /\ At("mkdir") = {}
       /\ At("write") = {}
       /\ pc = "raised"

\* C4: for a manifest in which a key get_image_ids reads is absent at any
\* level, for any canvas, get_image_ids raises (KeyError or IndexError, the
\* malformed-manifest failure) and returns no list, partial or not; the call
\* ends there, with no image GET issued and no file written, also when the
\* canvases before the broken one are well formed.
C4_MalformedManifestAborts ==
    (/\ manifest # None
     /\ ~WellFormed(manifest[1])
     /\ At("parse") # {})
    => /\ pc = "raised"
       /\ exc \in {"KeyError", "IndexError"}
       /\ image_ids = <<>>
       /\ At("image_get") = {}
       /\ At("write") = {}
       /\ files = files_before

C4_Witness ==
    /\ manifest # None
    /\ HasCanvasList(manifest[1])
    /\ Len(CanvasesOf(manifest[1])) = 2
    /\ CanvasWellFormed(CanvasesOf(manifest[1])[1])
    /\ ~CanvasWellFormed(CanvasesOf(manifest[1])[2])
    /\ At("parse") # {}
    /\ pc = "raised"

C6_ImageIdsInCanvasOrder ==
    (At("parse") # {} /\ WellFormed(manifest[1]))
    => /\ pc # "raised" \/ At("image_get") # {}
       /\ Len(image_ids) = Len(CanvasesOf(manifest[1]))
       /\ \A k \in 1..Len(image_ids) : image_ids[k] = ServiceIdOf(manifest[1], k)

C6_Witness ==
    /\ pc = "mkdir"
    /\ Len(image_ids) = 2
    /\ image_ids[1] = "https://img.example/service2"
    /\ image_ids[2] = "https://img.example/service2"
    /\ Len(CanvasesOf(manifest[1])[1]["images"]) = 2

\* C7: after a call in which every request succeeded, for a Handle resolving
\* to pid P and a manifest with N canvases, exactly the N files
\* images/slv-P-i.<format>, i = 0..N-1, have been written, and file i holds
\* the body of the GET to the url built from the i-th canvas's service id.
C7_FilesWritten ==
    (/\ pc = "returned"
     /\ pid # None
     /\ \A k \in 1..Len(trace) : trace[k].status = "ok")
    => LET N == Len(CanvasesOf(manifest[1])) IN
       /\ Cardinality(At("write")) = N
       /\ {trace[k].url : k \in At("write")} = {ExpectedFilename(i) : i \in 0..(N - 1)}
       /\ DOMAIN files = {ExpectedFilename(i) : i \in 0..(N - 1)}
       /\ \A i \in 0..(N - 1) :
            files[ExpectedFilename(i)] =
              <<"image:" \o ExpectedUrl(ServiceIdOf(manifest[1], i + 1))>>

C7_Witness ==
    /\ pc = "returned"
    /\ run = 1
    /\ handle_url = HandleResolving
    /\ image_type = "jpg" /\ max_width = None /\ max_height = None
    /\ DOMAIN files = {"images/slv-IE1164978-0.jpg"}
    /\ files["images/slv-IE1164978-0.jpg"] =
         <<"image:https://img.example/service1/full/max/0/default.jpg">>

\* C8: running download_image again with the same arguments against the same
\* server responses leaves the same files with the same contents: each file
\* is overwritten, none is appended to and none is added.
C8_Idempotent ==
    (Finished /\ run >= 2) => files = files_before

C8_Witness ==
    /\ Finished
    /\ run = 2
    /\ Cardinality(At("write")) = 2
    /\ files = files_before

\* C9: the steps of a call happen in one order: the Handle GET, the manifest
\* GET, the parse, the directory creation, then for i = 0, 1, ... the GET for
\* page i followed by the write of file i; no request is repeated, and a call
\* that returns has issued exactly N image GETs.
C9_StrictOrder ==
    /\ \A k \in 1..Len(trace) :
         /\ k = 1 => trace[k].op = "handle_get"
         /\ k = 2 => trace[k].op = "manifest_get"
         /\ k = 3 => trace[k].op = "parse"
         /\ k = 4 => trace[k].op = "mkdir"
         /\ (k > 4 /\ k % 2 = 1) =>
              (trace[k].op = "image_get" /\ trace[k].index = (k - 5) \div 2)
         /\ (k > 4 /\ k % 2 = 0) =>
              (trace[k].op = "write" /\ trace[k].index = (k - 6) \div 2)
    /\ \A k \in At("image_get") : trace[k].index < Len(CanvasesOf(manifest[1]))
    /\ pc = "returned" =>
         /\ Cardinality(At("image_get")) = Len(CanvasesOf(manifest[1]))
         /\ Cardinality(At("write")) = Len(CanvasesOf(manifest[1]))

C9_Witness ==
    /\ pc = "returned"
    /\ Len(trace) = 8
    /\ trace[7].op = "image_get"
    /\ trace[7].index = 1

\* C10: when the Handle resolves and the manifest is well formed but its first
\* sequence has no canvases, download_image raises nothing: it creates the
\* output directory, issues no image GET, writes no file and returns.
C10_ZeroCanvases ==
    (/\ pid # None
     /\ manifest # None
     /\ HasCanvasList(manifest[1])
     /\ CanvasesOf(manifest[1]) = <<>>)
    => /\ pc \in {"parse", "mkdir", "loop", "returned"}
       /\ exc = ""
       /\ At("image_get") = {}
       /\ At("write") = {}
       /\ files = files_before
       /\ pc \in {"loop", "returned"} => (At("mkdir") # {} /\ "images" \in dirs)

C10_Witness ==
    /\ pc = "returned"
    /\ pid # None
    /\ manifest # None
    /\ HasCanvasList(manifest[1])
    /\ CanvasesOf(manifest[1]) = <<>>
    /\ "images" \in dirs
    /\ At("image_get") = {}

=============================================================================
